---- MODULE Spec2Model ----
(***************************************************************************)
(* Model of cell2cell/core/interaction_space.py: construction of an       *)
(* InteractionSpace (cutoff check, generate_interaction_elements) and the  *)
(* all-pairs scoring loop compute_pairwise_interactions.                   *)
(*                                                                         *)
(* Cell labels are the integers 1..n.  A DataFrame is a record             *)
(* [rows, cols, val] with val a function on rows \X cols.  The order of    *)
(* list(set(...)) is the hash order of the set, which the program does not *)
(* control: the model keeps the elements of the list and resolves the      *)
(* order as the loop consumes them (done = the entries iterated so far).   *)
(***************************************************************************)
EXTENDS Integers, FiniteSets, Sequences, TLC

\* ---- bounds ----
MaxCells == 3
MaxScore == 1
RebuildMaxCells == 2

\* value pandas fills a cell with when .loc enlarges a frame
NaN == -1

Scores == 0..MaxScore

\* gene_cutoffs, as the set of its keys
CutoffSpecs == {{"type", "parameter"}, {"dataframe"}, {}}

TemplateKinds == {"none", "match", "mismatch"}

VARIABLES
    cell_instances,   \* list(binary_rnaseq.columns)
    gene_cutoffs,     \* keys of the gene_cutoffs argument
    ppi_has_type,     \* interaction_type in ppi_dict
    template_kind,    \* the cci_matrix_template argument
    phase,            \* position of the caller
    attrs,            \* names of the attributes set on self
    elem_keys,        \* keys of self.interaction_elements
    pairs,            \* elements of interaction_elements['pairs']
    cells,            \* keys of interaction_elements['cells']
    cci_matrix,       \* interaction_elements['cci_matrix']
    aliased,          \* cci_matrix is the caller's template object
    init_matrix,      \* cci_matrix as construction left it
    done,             \* entries of 'pairs' the loop has processed
    returned,         \* values the pairwise scorer has returned, by entry
    failed,           \* entries for which the pairwise scorer raised
    writes,           \* <<entry, coordinate>> for every .loc assignment made
    run,              \* 1 for the first build, 2 for the rebuild
    prev_matrix       \* cci_matrix at the end of the first build's pass

vars == <<cell_instances, gene_cutoffs, ppi_has_type, template_kind, phase,
          attrs, elem_keys, pairs, cells, cci_matrix, aliased, init_matrix,
          done, returned, failed, writes, run, prev_matrix>>

inputs == <<cell_instances, gene_cutoffs, ppi_has_type, template_kind>>

\* ---- data frames ----
ConstantFrame(labels, v) ==
    [rows |-> labels, cols |-> labels,
     val |-> [rc \in labels \X labels |-> v]]

NoFrame == ConstantFrame({}, 0)

\* df.loc[r, c] = v : assignment, enlarging the frame when a label is missing
SetLoc(m, r, c, v) ==
    LET rows2 == m.rows \cup {r}
        cols2 == m.cols \cup {c}
    IN  [rows |-> rows2, cols |-> cols2,
         val |-> [rc \in rows2 \X cols2 |->
                    IF rc = <<r, c>> THEN v
                    ELSE IF rc \in m.rows \X m.cols THEN m.val[rc]
                    ELSE NaN]]

\* ---- inputs ----
SeqToSet(s) == {s[i] : i \in 1..Len(s)}

CellSet == SeqToSet(cell_instances)

TemplateValue(r, c) == 10 * r + c

TemplateLabels(kind, n) ==
    IF kind = "match" THEN 1..n ELSE (1..(n - 1)) \cup {n + 1}

CallerTemplate(kind, n) ==
    LET labels == TemplateLabels(kind, n)
    IN  [rows |-> labels, cols |-> labels,
         val |-> [rc \in labels \X labels |-> TemplateValue(rc[1], rc[2])]]

\* ---- generate_interaction_elements ----
CombinationIndexes(m) == {ij \in (1..m) \X (1..m) : ij[1] < ij[2]}

PairwiseNoDoubling(ci) ==
    {<<ci[ij[1]], ci[ij[2]]>> : ij \in CombinationIndexes(Len(ci))}

PairwiseInteractions(ci) ==
    LET doubled == ci \o ci
    IN  {<<doubled[ij[1]], doubled[ij[2]]>> :
            ij \in CombinationIndexes(Len(doubled))}

ZerosFrame(ci) == ConstantFrame(SeqToSet(ci), 0)

\* the frame a build starts from: zeros, or the caller's object itself
\* (on a rebuild that object is the frame the first pass wrote into)
BuildMatrix(first) ==
    IF template_kind = "none" THEN ZerosFrame(cell_instances)
    ELSE IF first THEN CallerTemplate(template_kind, Len(cell_instances))
    ELSE cci_matrix

GenerateInteractionElements(first) ==
    /\ pairs' = PairwiseInteractions(cell_instances)
    /\ cells' = SeqToSet(cell_instances)
    /\ cci_matrix' = BuildMatrix(first)
    /\ init_matrix' = BuildMatrix(first)
    /\ aliased' = (template_kind # "none")
    /\ elem_keys' = {"pairs", "cells", "cci_matrix"}

NothingBuilt ==
    UNCHANGED <<elem_keys, pairs, cells, cci_matrix, aliased, init_matrix>>

\* ---- InteractionSpace.__init__ ----
ConstructLateCheck ==
    /\ phase = "unbuilt"
    /\ IF ~ppi_has_type /\ "type" \in gene_cutoffs
       THEN /\ attrs' = {"binary_rnaseq", "interaction_type"}
            /\ NothingBuilt
            /\ phase' = "ctor_error"
       ELSE /\ attrs' = {"binary_rnaseq", "interaction_type", "ppi_data",
                         "interaction_elements"}
            /\ GenerateInteractionElements(TRUE)
            /\ phase' = IF "type" \in gene_cutoffs THEN "built"
                        ELSE "ctor_error"
    /\ UNCHANGED <<inputs, done, returned, failed, writes, run, prev_matrix>>

Construct ==
    /\ phase = "unbuilt"
    /\ IF "type" \notin gene_cutoffs
       THEN /\ phase' = "ctor_error"
            /\ UNCHANGED attrs
            /\ NothingBuilt
       ELSE IF ~ppi_has_type
       THEN /\ attrs' = {"binary_rnaseq", "interaction_type"}
            /\ NothingBuilt
            /\ phase' = "ctor_error"
       ELSE /\ attrs' = {"binary_rnaseq", "interaction_type", "ppi_data",
                         "interaction_elements"}
            /\ GenerateInteractionElements(TRUE)
            /\ phase' = "built"
    /\ UNCHANGED <<inputs, done, returned, failed, writes, run, prev_matrix>>

\* ---- InteractionSpace.compute_pairwise_interactions ----
ComputeStart ==
    /\ phase = "built"
    /\ phase' = "scoring"
    /\ UNCHANGED <<inputs, attrs, elem_keys, pairs, cells, cci_matrix, aliased,
                   init_matrix, done, returned, failed, writes, run,
                   prev_matrix>>

\* the coordinates one iteration assigns, in the order it assigns them
WriteTargetsTypo(pair) == << <<pair[1], pair[2]>>, <<pair[2], pair[2]>> >>

WriteTargets(pair) == << <<pair[1], pair[2]>>, <<pair[2], pair[1]>> >>

WriteScoreOneTriangle(m, pair, cci_score) ==
    SetLoc(m, pair[1], pair[2], cci_score)

WriteScore(m, pair, cci_score) ==
    LET t == WriteTargets(pair)
    IN  SetLoc(SetLoc(m, t[1][1], t[1][2], cci_score),
               t[2][1], t[2][2], cci_score)

\* outcomes of self.pairwise_interaction for one entry: the scorer is an
\* external pure function of the two cells, so a second call repeats the first
ScorerRaises(pair) == pair \in failed \/ pair \notin DOMAIN returned

ScorerValues(pair) ==
    IF pair \in failed THEN {}
    ELSE IF pair \in DOMAIN returned THEN {returned[pair]}
    ELSE Scores

ScorePair ==
    /\ phase = "scoring"
    /\ \E pair \in pairs \ done :
         /\ pair[1] \in cells /\ pair[2] \in cells
         /\ \/ \E cci_score \in ScorerValues(pair) :
                 /\ returned' = IF pair \in DOMAIN returned THEN returned
                                ELSE returned @@ (pair :> cci_score)
                 /\ cci_matrix' = WriteScore(cci_matrix, pair, cci_score)
                 /\ writes' = writes \cup
                       {<<pair, WriteTargets(pair)[k]>> : k \in 1..2}
                 /\ done' = done \cup {pair}
                 /\ UNCHANGED <<phase, failed>>
            \/ /\ ScorerRaises(pair)
               /\ failed' = failed \cup {pair}
               /\ phase' = "score_error"
               /\ UNCHANGED <<returned, cci_matrix, writes, done>>
    /\ UNCHANGED <<inputs, attrs, elem_keys, pairs, cells, aliased,
                   init_matrix, run, prev_matrix>>

ComputeReturn ==
    /\ phase = "scoring"
    /\ pairs \ done = {}
    /\ phase' = "complete"
    /\ UNCHANGED <<inputs, attrs, elem_keys, pairs, cells, cci_matrix, aliased,
                   init_matrix, done, returned, failed, writes, run,
                   prev_matrix>>

\* ---- a second InteractionSpace built from the same inputs ----
Rebuild ==
    /\ phase = "complete"
    /\ run = 1
    /\ Len(cell_instances) <= RebuildMaxCells
    /\ prev_matrix' = cci_matrix
    /\ run' = 2
    /\ attrs' = {"binary_rnaseq", "interaction_type", "ppi_data",
                 "interaction_elements"}
    /\ GenerateInteractionElements(FALSE)
    /\ phase' = "built"
    /\ done' = {}
    /\ writes' = {}
    /\ UNCHANGED <<inputs, returned, failed>>

\* ---- specifications ----
Init ==
    /\ \E n \in 1..MaxCells : cell_instances = [i \in 1..n |-> i]
    /\ gene_cutoffs \in CutoffSpecs
    /\ ppi_has_type \in BOOLEAN
    /\ template_kind \in TemplateKinds
    /\ phase = "unbuilt"
    /\ attrs = {}
    /\ elem_keys = {}
    /\ pairs = {}
    /\ cells = {}
    /\ cci_matrix = NoFrame
    /\ aliased = FALSE
    /\ init_matrix = NoFrame
    /\ done = {}
    /\ returned = <<>>
    /\ failed = {}
    /\ writes = {}
    /\ run = 1
    /\ prev_matrix = NoFrame

Next == Construct \/ ComputeStart \/ ScorePair \/ ComputeReturn

Spec == Init /\ [][Next]_vars

NextRebuild == Next \/ Rebuild

SpecRebuild == Init /\ [][NextRebuild]_vars

\* ---- properties ----
Built == phase \in {"built", "scoring", "complete", "score_error"}

NumCells == Len(cell_instances)

Entry(i, j) == cci_matrix.val[<<i, j>>]

Mirror(pair) == <<pair[2], pair[1]>>

\* C1: after a complete pass over a space built without a template the CCI
\* matrix is symmetric, M[i,j] = M[j,i] for all cells i, j, whatever order the
\* entries were taken in and whatever the scorer returned.
SymmetricAfterPass ==
    (phase = "complete" /\ template_kind = "none") =>
        \A i \in CellSet : \A j \in CellSet : Entry(i, j) = Entry(j, i)

SymmetricAfterPassWitness ==
    /\ phase = "complete"
    /\ template_kind = "none"
    /\ NumCells = 3
    /\ returned[<<1, 2>>] # returned[<<2, 1>>]
    /\ Entry(1, 2) = 1
    /\ Entry(2, 3) = 0

ScorerSymmetric ==
    \A p \in DOMAIN returned :
        Mirror(p) \in DOMAIN returned /\ returned[Mirror(p)] = returned[p]

WrittenBy(pair) == {w[2] : w \in {x \in writes : x[1] = pair}}

MismatchedTemplateRejected ==
    /\ (template_kind = "mismatch" /\ phase # "unbuilt") => phase = "ctor_error"
    /\ Built => (init_matrix.rows = CellSet /\ init_matrix.cols = CellSet)

NoMethodNoTable == gene_cutoffs \cap {"type", "dataframe"} = {}

\* C7: with a cutoff spec that names no method and holds no table,
\* construction raises and leaves nothing derived: no attribute, no cell
\* registry, no pair list, no matrix.
NoMethodAbortsBeforeDerivation ==
    (NoMethodNoTable /\ phase # "unbuilt") =>
        /\ phase = "ctor_error"
        /\ attrs = {}
        /\ elem_keys = {}
        /\ pairs = {}
        /\ cells = {}
        /\ cci_matrix = NoFrame

NoMethodAbortsWitness ==
    /\ NoMethodNoTable
    /\ ppi_has_type
    /\ template_kind = "match"
    /\ NumCells = 3
    /\ phase = "ctor_error"

\* C8: with a cutoff spec that holds a precomputed table and names no method,
\* construction succeeds.
PrecomputedTableAccepted ==
    ("dataframe" \in gene_cutoffs /\ "type" \notin gene_cutoffs
        /\ ppi_has_type /\ phase # "unbuilt") => Built

ValidityMarkers ==
    {"valid", "invalid", "partial", "complete", "completed_pairs"}

MarkedInvalid == (attrs \cup elem_keys) \cap ValidityMarkers # {}

SentinelRecorded(pair) ==
    /\ pair \in DOMAIN cci_matrix.val
    /\ Mirror(pair) \in DOMAIN cci_matrix.val
    /\ cci_matrix.val[pair] = NaN
    /\ cci_matrix.val[Mirror(pair)] = NaN

\* C9: once scoring a pair has failed, either the space is marked
\* invalid/partial or a sentinel is recorded in the matrix for that pair.
FailureIsRecorded ==
    failed # {} =>
        \/ MarkedInvalid
        \/ \A pair \in failed : SentinelRecorded(pair)

ReturnedFor(i, j) ==
    {returned[p] : p \in {<<i, j>>, <<j, i>>} \cap DOMAIN returned}

\* C10: a template with the cell set's labels is used as the CCI matrix
\* itself, not a copy, and after a complete pass every entry M[i,j] over the
\* cell set, diagonal included, holds a value the scorer returned for (i,j) or
\* (j,i).
TemplateFullyOverwritten ==
    template_kind = "match" =>
        /\ Built => aliased
        /\ phase = "complete" =>
               \A i \in CellSet : \A j \in CellSet :
                   Entry(i, j) \in ReturnedFor(i, j)

TemplateFullyOverwrittenWitness ==
    /\ template_kind = "match"
    /\ phase = "complete"
    /\ aliased
    /\ NumCells = 3
    /\ returned[<<1, 2>>] # returned[<<2, 1>>]
    /\ Entry(1, 2) = returned[<<2, 1>>]
    /\ init_matrix.val[<<1, 1>>] = TemplateValue(1, 1)

====
